---- MODULE Spec2Model ----
(***************************************************************************)
(* Penman-Planner backend (src/backend/server.py): the Penman evaporation  *)
(* model, the storage-planning model, and the six /api handlers over the   *)
(* three MongoDB collections.                                              *)
(*                                                                         *)
(* Numbers.  The code computes in IEEE doubles; the model computes in      *)
(* fixed point.  Quantities of the Penman formula are integers in units of *)
(* 1e-4; temperature is given in tenths of a degree; values rounded *)
(* by round(x, 3) are integers in thousandths, values rounded by           *)
(* round(x, 2) are integers in hundredths.  exp() is tabulated for the     *)
(* temperatures of the input sets.                                         *)
(*                                                                         *)
(* Text.  A string that the program compares or parses (the ISO-8601       *)
(* timestamp) is a sequence of character codes; the date part, the same    *)
(* for every timestamp of a run, is left out.                              *)
(***************************************************************************)
EXTENDS Integers, Sequences, FiniteSets

VARIABLES
    evaporation_results,       \* db.evaporation_results: documents in natural (insertion) order
    storage_planning_results,  \* db.storage_planning_results
    status_checks,             \* db.status_checks
    now,                       \* the wall clock, in half-second ticks since midnight
    nextId,                    \* the next uuid4 that has not been handed out
    inflight,                  \* the POST requests suspended at `await insert_one`
    succeeded,                 \* per POST operation, how many requests were answered 200
    resp                       \* the response sent by the last step, if it sent one

vars == <<evaporation_results, storage_planning_results, status_checks,
          now, nextId, inflight, succeeded, resp>>

----------------------------------------------------------------------------
(* Bounds of the model.                                                    *)

\* Spec: requests issued in a run, requests suspended at once, clock ticks.
MaxRequests == 3
MaxInflight == 2
MaxClock == 1
\* SpecLoad: records a run may create in the two planning collections and in
\* status_checks.
MaxLoadRecords == 51
MaxLoadStatus == 1001

\* Program constants.
HistoryLimit == 50
StatusLimit == 1000
DefaultSurfaceArea == 1000

\* An optional field or parameter of a request: given, or left out.
Omitted == <<>>
Given(value) == <<value>>

Min(a, b) == IF a < b THEN a ELSE b
Max(a, b) == IF a > b THEN a ELSE b

----------------------------------------------------------------------------
(* Numeric helpers.                                                        *)

\* round(x, ndigits) of a value x given in units `unit` times finer than the
\* digit kept: the nearest multiple, as a count of the kept digit.  A double
\* that sits at a decimal tie is rounded by the sign of its representation
\* error, so a tie goes either way: tieUp says which.
round(x, unit, tieUp) ==
    LET q == x \div unit
        r == x % unit
    IN  IF 2 * r < unit THEN q
        ELSE IF 2 * r > unit THEN q + 1
        ELSE IF tieUp THEN q + 1 ELSE q

\* 0.6108 * math.exp((17.27 * T) / (T + 237.3)) in units of 1e-4 kPa, for a
\* temperature in tenths of a degree.
saturation_vapor_pressure(temperature) ==
    CASE temperature = -100 -> 2857
      [] temperature = 0    -> 6108
      [] temperature = 100  -> 12280
      [] temperature = 250  -> 31678
      [] temperature = 300  -> 42431

\* The temperatures the table covers, and the one at which temperature + 237.3
\* is 0 and the division of line 74 raises ZeroDivisionError.
Temperatures == {-100, 0, 100, 250, 300}
DegenerateTemperature == -2373

\* calculate_penman_evaporation before its return statement: the unclamped
\* evaporation and the eight unrounded quantities, in units of 1e-4.
\* Humidity in percent, wind speed in m/s and solar radiation in MJ/m2/day
\* are integers.  Agrees with the doubles of the code to 0.002.
penman_terms(temperature, humidity, wind_speed, solar_radiation) ==
    LET psychrometric_constant == 6650
        es == saturation_vapor_pressure(temperature)
        ea == (es * humidity) \div 100
        delta == (4098 * es) \div (((temperature + 2373) * (temperature + 2373)) \div 100)
        rn == (solar_radiation * 1000000) \div 245
        wind_function == 26 * (100 + 54 * wind_speed) * 10
        radiation_component == (delta * rn) \div (delta + psychrometric_constant)
        aerodynamic_component ==
            ((((psychrometric_constant * wind_function) \div (delta + psychrometric_constant)) \div 10)
                * (es - ea)) \div 1000
    IN  [evaporation |-> radiation_component + aerodynamic_component,
         radiation_component |-> radiation_component,
         aerodynamic_component |-> aerodynamic_component,
         saturation_vapor_pressure |-> es,
         actual_vapor_pressure |-> ea,
         vapor_pressure_deficit |-> es - ea,
         slope_vapor_pressure |-> delta,
         wind_function |-> wind_function,
         net_radiation_equivalent |-> rn]

\* The return statement without its clamp.
clamp_missing(evaporation) == evaporation

\* The clamp of line 108: max(0, evaporation).
clamp(evaporation) == Max(0, evaporation)

\* calculate_penman_evaporation: <<max(0, evaporation), components>>, the
\* rate still in units of 1e-4, each component rounded to thousandths.
calculate_penman_evaporation(temperature, humidity, wind_speed, solar_radiation, tieUp) ==
    LET t == penman_terms(temperature, humidity, wind_speed, solar_radiation)
    IN  [evaporation |-> clamp(t.evaporation),
         components |->
            [radiation_component |-> round(t.radiation_component, 10, tieUp),
             aerodynamic_component |-> round(t.aerodynamic_component, 10, tieUp),
             saturation_vapor_pressure |-> round(t.saturation_vapor_pressure, 10, tieUp),
             actual_vapor_pressure |-> round(t.actual_vapor_pressure, 10, tieUp),
             vapor_pressure_deficit |-> round(t.vapor_pressure_deficit, 10, tieUp),
             slope_vapor_pressure |-> round(t.slope_vapor_pressure, 10, tieUp),
             wind_function |-> round(t.wind_function, 10, tieUp),
             net_radiation_equivalent |-> round(t.net_radiation_equivalent, 10, tieUp)]]

----------------------------------------------------------------------------
(* Storage planning.                                                       *)

Seasons == {"spring", "summer", "autumn", "winter"}

\* seasonal_factors, in tenths.
seasonal_factors == [spring |-> 8, summer |-> 13, autumn |-> 7, winter |-> 4]

irrigation_recommendations ==
    << [period |-> "Summer (Mar-Jun)", irrigation_frequency |-> "Every 3-4 days",
        water_requirement |-> "High",
        evaporation_consideration |-> "High evaporation losses - increase irrigation by 30%"],
       [period |-> "Rainy (Jul-Oct)", irrigation_frequency |-> "Every 10-15 days",
        water_requirement |-> "Low",
        evaporation_consideration |-> "Rainfall compensates - minimal irrigation required"],
       [period |-> "Winter (Nov-Feb)", irrigation_frequency |-> "Every 7-10 days",
        water_requirement |-> "Medium",
        evaporation_consideration |-> "Low evaporation - moderate irrigation needed"] >>

\* One entry of seasonal_analysis (lines 130-135).  daily_loss is in 1e-6 m3,
\* so daily_loss * factor is in 1e-7 m3 and seasonal_loss, daily_loss * factor
\* * 90, is 9 * daily_loss * factor in 1e-6 m3; both are rounded to
\* hundredths.  (The product by 9 is taken on the quotient and the remainder
\* by 10000 apart, which keeps it within 32 bits.)
season_entry(daily_loss, factor, tieUp) ==
    [daily_evaporation_loss |-> round(daily_loss * factor, 100000, tieUp),
     seasonal_total_loss |->
        9 * ((daily_loss * factor) \div 10000)
        + round(9 * ((daily_loss * factor) % 10000), 10000, tieUp),
     percentage_factor |-> factor]

\* The "20% buffer" of the comment at line 140 instead of the factor 1.5.
recommended_capacity_20_percent(annual_loss) == annual_loss * 12

\* annual_loss * 1.5 (line 141), in thousandths for an annual loss in hundredths.
recommended_capacity(annual_loss) == annual_loss * 15

\* calculate_storage_planning: evap_rate in thousandths of a mm/day, the
\* surface area in m2; volumes of the result in hundredths of a m3.
calculate_storage_planning(evap_rate, reservoir_surface_area, tieUp) ==
    LET daily_loss == evap_rate * reservoir_surface_area
        seasonal_analysis ==
            [season \in Seasons |-> season_entry(daily_loss, seasonal_factors[season], tieUp)]
        annual_loss ==
            seasonal_analysis["spring"].seasonal_total_loss
            + seasonal_analysis["summer"].seasonal_total_loss
            + seasonal_analysis["autumn"].seasonal_total_loss
            + seasonal_analysis["winter"].seasonal_total_loss
        water_balance ==
            [annual_evaporation_loss |-> round(annual_loss * 10, 10, tieUp),
             recommended_buffer |-> round(annual_loss * 5, 10, tieUp),
             total_recommended_capacity |-> round(recommended_capacity(annual_loss), 10, tieUp),
             surface_area_assumed |-> reservoir_surface_area]
    IN  [reservoir_capacity_needed |-> round(recommended_capacity(annual_loss), 10, tieUp),
         seasonal_analysis |-> seasonal_analysis,
         irrigation_recommendations |-> irrigation_recommendations,
         water_balance |-> water_balance]

----------------------------------------------------------------------------
(* Timestamps.                                                             *)

\* datetime.now(timezone.utc) when the clock shows `tick` half seconds.
utcnow(tick) ==
    [hour |-> (tick \div 2) \div 3600,
     minute |-> ((tick \div 2) \div 60) % 60,
     second |-> (tick \div 2) % 60,
     microsecond |-> (tick % 2) * 500000]

\* The decimal digits of n, zero padded to `width`, as character codes.
RECURSIVE digits(_, _)
digits(n, width) ==
    IF width = 0 THEN <<>> ELSE Append(digits(n \div 10, width - 1), 48 + (n % 10))

\* The number a run of digit codes spells.
RECURSIVE number(_)
number(codes) ==
    IF codes = <<>> THEN 0
    ELSE 10 * number(SubSeq(codes, 1, Len(codes) - 1)) + (codes[Len(codes)] - 48)

\* isoformat(timespec="seconds"): the fraction is never written.
isoformat_seconds(dt) ==
    digits(dt.hour, 2) \o <<58>> \o digits(dt.minute, 2) \o <<58>> \o digits(dt.second, 2)
    \o <<43, 48, 48, 58, 48, 48>>

\* datetime.isoformat() from the hour on: HH:MM:SS[.ffffff]+00:00.  The
\* fraction is left out when microsecond is 0.  58 is ":", 46 ".", 43 "+".
isoformat(dt) ==
    digits(dt.hour, 2) \o <<58>> \o digits(dt.minute, 2) \o <<58>> \o digits(dt.second, 2)
    \o (IF dt.microsecond = 0 THEN <<>> ELSE <<46>> \o digits(dt.microsecond, 6))
    \o <<43, 48, 48, 58, 48, 48>>

\* datetime.fromisoformat() of such a string.
fromisoformat(str) ==
    [hour |-> number(SubSeq(str, 1, 2)),
     minute |-> number(SubSeq(str, 4, 5)),
     second |-> number(SubSeq(str, 7, 8)),
     microsecond |-> IF str[9] = 46 THEN number(SubSeq(str, 10, 15)) ELSE 0]

\* The instant of a datetime, in microseconds since midnight UTC; only
\* the claims use it, to say which of two timestamps is the later.
instant(dt) == ((dt.hour * 60 + dt.minute) * 60 + dt.second) * 1000000 + dt.microsecond

\* The order in which the store compares two strings: code by code from
\* position i on, a proper prefix first.
RECURSIVE less_from(_, _, _)
less_from(a, b, i) ==
    IF i > Len(b) THEN FALSE
    ELSE IF i > Len(a) THEN TRUE
    ELSE IF a[i] # b[i] THEN a[i] < b[i]
    ELSE less_from(a, b, i + 1)

string_less(a, b) == less_from(a, b, 1)

----------------------------------------------------------------------------
(* The pydantic models and their stored documents.                         *)

\* WeatherInput: `location` defaults to "Unknown Location".
WeatherInput(body) ==
    [temperature |-> body.temperature,
     humidity |-> body.humidity,
     wind_speed |-> body.wind_speed,
     solar_radiation |-> body.solar_radiation,
     location |-> IF body.location = Omitted THEN "Unknown Location" ELSE body.location[1]]

\* EvaporationResult(...): id and timestamp come from the default factories.
EvaporationResult(id, evaporation_rate, weather_input, penman_components, timestamp) ==
    [id |-> id,
     evaporation_rate |-> evaporation_rate,
     weather_input |-> weather_input,
     penman_components |-> penman_components,
     timestamp |-> timestamp]

StoragePlanningResult(id, planning_data, evaporation_data, timestamp) ==
    [id |-> id,
     reservoir_capacity_needed |-> planning_data.reservoir_capacity_needed,
     seasonal_analysis |-> planning_data.seasonal_analysis,
     irrigation_recommendations |-> planning_data.irrigation_recommendations,
     water_balance |-> planning_data.water_balance,
     evaporation_data |-> evaporation_data,
     timestamp |-> timestamp]

StatusCheck(id, client_name, timestamp) ==
    [id |-> id, client_name |-> client_name, timestamp |-> timestamp]

\* result.dict() with the timestamp replaced by its isoformat() (lines 203-204,
\* 276-277).
result_dict(result) == [result EXCEPT !.timestamp = isoformat(result.timestamp)]

\* storage_result.dict() with both timestamps replaced (lines 239-241).
storage_result_dict(result) ==
    [result EXCEPT !.timestamp = isoformat(result.timestamp),
                   !.evaporation_data = result_dict(result.evaporation_data)]

\* A document read back: the timestamp parsed, the model rebuilt (lines
\* 252-256, 286-290).  The _id the driver adds is not a field of the model
\* and is dropped by it.
parse_document(doc) == [doc EXCEPT !.timestamp = fromisoformat(doc.timestamp)]

\* Lines 264-270.
parse_storage_document(doc) ==
    [doc EXCEPT !.timestamp = fromisoformat(doc.timestamp),
                !.evaporation_data = parse_document(doc.evaporation_data)]

----------------------------------------------------------------------------
(* The store: insert_one, and find with sort and limit.                    *)

\* replace_one({}, document, upsert=True): the document takes the place of
\* what was stored.
insert_one_replacing(collection, document) == <<document>>

\* collection.insert_one(document): the document is added; nothing else of
\* the collection changes.
insert_one(collection, document) == Append(collection, document)

\* cursor.limit(n).to_list(n)
to_list(documents, n) == SubSeq(documents, 1, Min(n, Len(documents)))

\* Whether document a comes before document b under sort("timestamp", -1).
\* The store gives no order to documents of equal timestamp: tiesReversed
\* says whether they come in natural order or against it.
sorts_before(a, b, tiesReversed) ==
    \/ string_less(b.timestamp, a.timestamp)
    \/ a.timestamp = b.timestamp /\ ~tiesReversed

RECURSIVE merge(_, _, _)
merge(left, right, tiesReversed) ==
    IF left = <<>> THEN right
    ELSE IF right = <<>> THEN left
    ELSE IF sorts_before(Head(left), Head(right), tiesReversed)
         THEN <<Head(left)>> \o merge(Tail(left), right, tiesReversed)
         ELSE <<Head(right)>> \o merge(left, Tail(right), tiesReversed)

\* cursor.sort("timestamp", -1): the documents, latest timestamp string first.
RECURSIVE sort_timestamp_descending(_, _)
sort_timestamp_descending(documents, tiesReversed) ==
    IF Len(documents) <= 1 THEN documents
    ELSE LET half == Len(documents) \div 2
         IN  merge(sort_timestamp_descending(SubSeq(documents, 1, half), tiesReversed),
                   sort_timestamp_descending(SubSeq(documents, half + 1, Len(documents)), tiesReversed),
                   tiesReversed)

\* The same with sort("timestamp", 1): oldest first.
RECURSIVE reversed(_)
reversed(documents) ==
    IF documents = <<>> THEN <<>> ELSE Append(reversed(Tail(documents)), Head(documents))

find_oldest(collection, tiesReversed) ==
    to_list(reversed(sort_timestamp_descending(collection, tiesReversed)), HistoryLimit)

\* find().sort("timestamp", -1).limit(50).to_list(50)  (lines 249, 261)
find_recent(collection, tiesReversed) ==
    to_list(sort_timestamp_descending(collection, tiesReversed), HistoryLimit)

\* GET /status with the sort of the two history handlers.
find_status_newest_first(collection) ==
    to_list(sort_timestamp_descending(collection, FALSE), StatusLimit)

\* find().to_list(1000)  (line 283): natural order, no sort.
find_status(collection) == to_list(collection, StatusLimit)

----------------------------------------------------------------------------
(* Requests and responses.                                                 *)

PostOps == {"calculate-evaporation", "calculate-storage-planning", "status"}
GetOps == {"evaporation-history", "storage-planning-history", "get-status"}

\* What a step sends back: the operation, the HTTP status, and the body as a
\* list (one model for a POST, the listed models for a GET, none on error).
Response(op, status, body) == [op |-> op, status |-> status, body |-> body]
NoResponse == Response("none", 0, <<>>)

\* A POST suspended at `await insert_one(...)`: the model it will return and
\* the document it handed to the driver.
Suspended(op, input, result, document) ==
    [op |-> op, input |-> input, result |-> result, document |-> document]

\* A default of 100 in place of 1000.
surface_area_parameter_100(surface_area) ==
    IF surface_area = Omitted THEN 100 ELSE surface_area[1]

\* The query parameter surface_area: Optional[float] = 1000 (line 210).
surface_area_parameter(surface_area) ==
    IF surface_area = Omitted THEN DefaultSurfaceArea ELSE surface_area[1]

\* result_dict kept in a module-level variable that every request of the
\* operation overwrites: insert_one writes the one built last.
last_built_document(request) ==
    LET same == {other \in inflight : other.op = request.op}
    IN  (CHOOSE latest \in same : \A other \in same : other.result.id <= latest.result.id).document

\* The document a resumed request's insert_one writes: the one that request
\* built.
inserted_document(request) == request.document

\* POST /calculate-storage-planning storing its EvaporationResult in
\* evaporation_results as well.
inserts_with_evaporation_copy(request) ==
    [evaporation_results |->
        IF request.op = "calculate-evaporation" THEN <<request.document>>
        ELSE IF request.op = "calculate-storage-planning"
             THEN <<request.document.evaporation_data>> ELSE <<>>,
     storage_planning_results |->
        IF request.op = "calculate-storage-planning" THEN <<request.document>> ELSE <<>>,
     status_checks |->
        IF request.op = "status" THEN <<request.document>> ELSE <<>>]

\* The documents a POST inserts, per collection (lines 205, 242, 278).
inserts(request) ==
    [evaporation_results |->
        IF request.op = "calculate-evaporation" THEN <<inserted_document(request)>> ELSE <<>>,
     storage_planning_results |->
        IF request.op = "calculate-storage-planning" THEN <<inserted_document(request)>> ELSE <<>>,
     status_checks |->
        IF request.op = "status" THEN <<inserted_document(request)>> ELSE <<>>]

\* A collection after the documents `added` were inserted one by one.
RECURSIVE insert_all(_, _)
insert_all(collection, added) ==
    IF added = <<>> THEN collection
    ELSE insert_all(insert_one(collection, Head(added)), Tail(added))

\* The exception of insert_one caught and logged, the result returned anyway.
response_on_swallowed_error(request) == Response(request.op, 200, <<request.result>>)

\* The response when insert_one raises: no handler catches the exception, so
\* the framework answers 500.
response_on_insert_error(request) == Response(request.op, 500, <<>>)

----------------------------------------------------------------------------
(* The handlers.                                                           *)

\* The EvaporationResult both POST handlers build (lines 189-200, 214-225),
\* read off the clock at `tick`.
evaporation_model(body, id, tick, tieUp) ==
    LET weather_input == WeatherInput(body)
        penman == calculate_penman_evaporation(
                      weather_input.temperature, weather_input.humidity,
                      weather_input.wind_speed, weather_input.solar_radiation, tieUp)
    IN  EvaporationResult(id, round(penman.evaporation, 10, tieUp), weather_input,
                          penman.components, utcnow(tick))

\* The StoragePlanningResult of lines 214-236.  The two models are built
\* within one tick of the clock.
storage_planning_model(body, surface_area, id, tick, tieUp) ==
    LET evaporation_result == evaporation_model(body, id, tick, tieUp)
        planning_data ==
            calculate_storage_planning(evaporation_result.evaporation_rate,
                                       surface_area_parameter(surface_area), tieUp)
    IN  StoragePlanningResult(id + 1, planning_data, evaporation_result, utcnow(tick))

\* POST /calculate-evaporation up to its await (lines 187-205).  `elapsed`
\* is the time since the clock was last read.
calculate_evaporation(body, elapsed, tieUp) ==
    IF body.temperature = DegenerateTemperature
    THEN /\ resp' = Response("calculate-evaporation", 500, <<>>)
         /\ UNCHANGED <<evaporation_results, storage_planning_results, status_checks,
                        now, nextId, inflight, succeeded>>
    ELSE LET result == evaporation_model(body, nextId, now + elapsed, tieUp)
         IN  /\ now' = now + elapsed
             /\ nextId' = nextId + 1
             /\ inflight' = inflight \cup
                    {Suspended("calculate-evaporation",
                               [weather_input |-> body, surface_area |-> Omitted],
                               result, result_dict(result))}
             /\ resp' = NoResponse
             /\ UNCHANGED <<evaporation_results, storage_planning_results,
                            status_checks, succeeded>>

\* POST /calculate-storage-planning up to its await (lines 210-242).
calculate_storage_planning_endpoint(body, surface_area, elapsed, tieUp) ==
    IF body.temperature = DegenerateTemperature
    THEN /\ resp' = Response("calculate-storage-planning", 500, <<>>)
         /\ UNCHANGED <<evaporation_results, storage_planning_results, status_checks,
                        now, nextId, inflight, succeeded>>
    ELSE LET storage_result ==
                 storage_planning_model(body, surface_area, nextId, now + elapsed, tieUp)
         IN  /\ now' = now + elapsed
             /\ nextId' = nextId + 2
             /\ inflight' = inflight \cup
                    {Suspended("calculate-storage-planning",
                               [weather_input |-> body, surface_area |-> surface_area],
                               storage_result, storage_result_dict(storage_result))}
             /\ resp' = NoResponse
             /\ UNCHANGED <<evaporation_results, storage_planning_results,
                            status_checks, succeeded>>

\* POST /status up to its await (lines 273-278).
create_status_check(input, elapsed) ==
    LET status_obj == StatusCheck(nextId, input.client_name, utcnow(now + elapsed))
    IN  /\ now' = now + elapsed
        /\ nextId' = nextId + 1
        /\ inflight' = inflight \cup
               {Suspended("status", input, status_obj, result_dict(status_obj))}
        /\ resp' = NoResponse
        /\ UNCHANGED <<evaporation_results, storage_planning_results, status_checks, succeeded>>

\* insert_one returns: the request resumes and returns its model (lines
\* 205-207, 242-244, 278-279).
insert_one_returns(request) ==
    /\ request \in inflight
    /\ evaporation_results' = insert_all(evaporation_results, inserts(request).evaporation_results)
    /\ storage_planning_results' =
           insert_all(storage_planning_results, inserts(request).storage_planning_results)
    /\ status_checks' = insert_all(status_checks, inserts(request).status_checks)
    /\ inflight' = inflight \ {request}
    /\ succeeded' = [succeeded EXCEPT ![request.op] = @ + 1]
    /\ resp' = Response(request.op, 200, <<request.result>>)
    /\ UNCHANGED <<now, nextId>>

\* insert_one raises (the store is unreachable, the write fails): nothing is
\* stored.
insert_one_raises(request) ==
    /\ request \in inflight
    /\ inflight' = inflight \ {request}
    /\ resp' = response_on_insert_error(request)
    /\ UNCHANGED <<evaporation_results, storage_planning_results, status_checks,
                   now, nextId, succeeded>>

\* GET /evaporation-history (lines 247-256).
get_evaporation_history(tiesReversed) ==
    /\ resp' = Response("evaporation-history", 200,
                        LET results == find_recent(evaporation_results, tiesReversed)
                        IN  [i \in 1..Len(results) |-> parse_document(results[i])])
    /\ UNCHANGED <<evaporation_results, storage_planning_results, status_checks,
                   now, nextId, inflight, succeeded>>

\* GET /storage-planning-history (lines 259-270).
get_storage_planning_history(tiesReversed) ==
    /\ resp' = Response("storage-planning-history", 200,
                        LET results == find_recent(storage_planning_results, tiesReversed)
                        IN  [i \in 1..Len(results) |-> parse_storage_document(results[i])])
    /\ UNCHANGED <<evaporation_results, storage_planning_results, status_checks,
                   now, nextId, inflight, succeeded>>

\* GET /status (lines 282-290).
get_status_checks ==
    /\ resp' = Response("get-status", 200,
                        LET checks == find_status(status_checks)
                        IN  [i \in 1..Len(checks) |-> parse_document(checks[i])])
    /\ UNCHANGED <<evaporation_results, storage_planning_results, status_checks,
                   now, nextId, inflight, succeeded>>

\* A find of a GET raises: the framework answers 500.
find_raises(op) ==
    /\ op \in GetOps
    /\ resp' = Response(op, 500, <<>>)
    /\ UNCHANGED <<evaporation_results, storage_planning_results, status_checks,
                   now, nextId, inflight, succeeded>>

----------------------------------------------------------------------------
(* Spec: a few concurrent requests of every kind.                          *)

Body(temperature, humidity, wind_speed, solar_radiation, location) ==
    [temperature |-> temperature, humidity |-> humidity, wind_speed |-> wind_speed,
     solar_radiation |-> solar_radiation, location |-> location]

\* A usual day; humid air and no sun, whose unclamped evaporation is
\* negative; the temperature at which the formula divides by zero.
WeatherBodies ==
    {Body(250, 60, 2, 20, Given("Pune")),
     Body(100, 150, 5, 0, Omitted),
     Body(DegenerateTemperature, 50, 1, 10, Omitted)}

SurfaceAreas == {Omitted, Given(750)}
ClientNames == {"probe"}

Elapsed == {d \in 0..1 : now + d <= MaxClock}

Init ==
    /\ evaporation_results = <<>>
    /\ storage_planning_results = <<>>
    /\ status_checks = <<>>
    /\ now = 0
    /\ nextId = 1
    /\ inflight = {}
    /\ succeeded = [op \in PostOps |-> 0]
    /\ resp = NoResponse

MayStart == nextId <= MaxRequests /\ Cardinality(inflight) < MaxInflight

Next ==
    \/ \E body \in WeatherBodies, elapsed \in Elapsed, tieUp \in BOOLEAN :
          MayStart /\ calculate_evaporation(body, elapsed, tieUp)
    \/ \E body \in WeatherBodies, surface_area \in SurfaceAreas,
          elapsed \in Elapsed, tieUp \in BOOLEAN :
          MayStart /\ calculate_storage_planning_endpoint(body, surface_area, elapsed, tieUp)
    \/ \E client_name \in ClientNames, elapsed \in Elapsed :
          MayStart /\ create_status_check([client_name |-> client_name], elapsed)
    \/ \E request \in inflight : insert_one_returns(request)
    \/ \E request \in inflight : insert_one_raises(request)
    \/ \E tiesReversed \in BOOLEAN : get_evaporation_history(tiesReversed)
    \/ \E tiesReversed \in BOOLEAN : get_storage_planning_history(tiesReversed)
    \/ get_status_checks
    \/ \E op \in GetOps : find_raises(op)

Spec == Init /\ [][Next]_vars

----------------------------------------------------------------------------
(* SpecLoad: one collection is filled past the limit of its list           *)
(* operation.  Every request reads a later clock tick than the one before. *)
(* Requests are issued one after the other, except that the first          *)
(* POST /calculate-evaporation of the run (the one that opens the          *)
(* connection to the store) may stay suspended while later requests are    *)
(* served.                                                                 *)

LoadBody == Body(250, 60, 2, 20, Given("Pune"))

\* No request of another operation has been issued.
OnlyLoad(op) ==
    /\ \A request \in inflight : request.op = op
    /\ op # "calculate-evaporation" => evaporation_results = <<>>
    /\ op # "calculate-storage-planning" => storage_planning_results = <<>>
    /\ op # "status" => status_checks = <<>>

NextLoad ==
    \/ /\ OnlyLoad("calculate-evaporation")
       /\ \A request \in inflight : request.result.id = 1
       /\ Len(evaporation_results) + Cardinality(inflight) < MaxLoadRecords
       /\ calculate_evaporation(LoadBody, 1, FALSE)
    \/ /\ OnlyLoad("calculate-storage-planning")
       /\ inflight = {}
       /\ Len(storage_planning_results) < MaxLoadRecords
       /\ calculate_storage_planning_endpoint(LoadBody, Omitted, 1, FALSE)
    \/ /\ OnlyLoad("status")
       /\ inflight = {}
       /\ Len(status_checks) < MaxLoadStatus
       /\ create_status_check([client_name |-> "probe"], 1)
    \/ \E request \in inflight : insert_one_returns(request)
    \/ \E tiesReversed \in BOOLEAN :
          evaporation_results # <<>> /\ get_evaporation_history(tiesReversed)
    \/ \E tiesReversed \in BOOLEAN :
          storage_planning_results # <<>> /\ get_storage_planning_history(tiesReversed)
    \/ status_checks # <<>> /\ get_status_checks

SpecLoad == Init /\ [][NextLoad]_vars

----------------------------------------------------------------------------
(* SpecCalc: one POST request, over a grid of weather inputs and surface   *)
(* areas, served to its end.                                               *)

CalcBodies ==
    {Body(temperature, humidity, wind_speed, solar_radiation, Omitted) :
        temperature \in Temperatures \cup {DegenerateTemperature},
        humidity \in {0, 60, 100, 150},
        wind_speed \in {0, 2, 5},
        solar_radiation \in {-5, 0, 20}}

CalcSurfaceAreas == {Omitted, Given(1000), Given(0), Given(-200), Given(750)}

NextCalc ==
    \/ \E body \in CalcBodies, tieUp \in BOOLEAN :
          nextId = 1 /\ calculate_evaporation(body, 0, tieUp)
    \/ \E body \in CalcBodies, surface_area \in CalcSurfaceAreas, tieUp \in BOOLEAN :
          nextId = 1 /\ calculate_storage_planning_endpoint(body, surface_area, 0, tieUp)
    \/ \E request \in inflight : insert_one_returns(request)

SpecCalc == Init /\ [][NextCalc]_vars

----------------------------------------------------------------------------
(* Shared vocabulary of the properties.                                    *)

IsPrefix(a, b) == Len(a) <= Len(b) /\ SubSeq(b, 1, Len(a)) = a

Abs(x) == IF x < 0 THEN -x ELSE x

\* The instant a stored document's timestamp string denotes.
stored_instant(doc) == instant(fromisoformat(doc.timestamp))

\* A listed body is ordered newest first.
NewestFirst(body) ==
    \A i \in 1..(Len(body) - 1) : instant(body[i].timestamp) >= instant(body[i + 1].timestamp)

\* The unclamped evaporation of a weather input.
RawEvaporation(w) ==
    penman_terms(w.temperature, w.humidity, w.wind_speed, w.solar_radiation).evaporation

Answered(op) == resp.op = op /\ resp.status = 200

----------------------------------------------------------------------------
(* C1 *)

\* C1: the evaporation_rate of every result returned by POST
\* /calculate-evaporation or POST /calculate-storage-planning, and of every
\* record stored by them, is >= 0, also when the unclamped sum of the
\* radiation and the aerodynamic component is negative.
C1_RateNonNegative ==
    /\ \A i \in 1..Len(evaporation_results) : evaporation_results[i].evaporation_rate >= 0
    /\ \A i \in 1..Len(storage_planning_results) :
          storage_planning_results[i].evaporation_data.evaporation_rate >= 0
    /\ Answered("calculate-evaporation") => resp.body[1].evaporation_rate >= 0
    /\ Answered("calculate-storage-planning") =>
          resp.body[1].evaporation_data.evaporation_rate >= 0

\* A request whose unclamped evaporation is negative was stored and answered
\* with the rate 0.
C1_Witness ==
    /\ Answered("calculate-evaporation")
    /\ Len(evaporation_results) = 1
    /\ RawEvaporation(resp.body[1].weather_input) < 0
    /\ resp.body[1].evaporation_rate = 0
    /\ evaporation_results[1].evaporation_rate = 0

----------------------------------------------------------------------------
(* C5 *)

\* The computed part of a StoragePlanningResult.
Computed(result) ==
    <<result.reservoir_capacity_needed, result.seasonal_analysis,
      result.irrigation_recommendations, result.water_balance>>

\* C5: a POST /calculate-storage-planning that leaves surface_area out
\* assumes 1000 and computes the reservoir capacity, the seasonal analysis,
\* the irrigation recommendations and the water balance that the same
\* request with surface_area = 1000 computes.
C5_OmittedAreaIsThousand ==
    \A request \in inflight :
        (request.op = "calculate-storage-planning" /\ request.input.surface_area = Omitted) =>
            /\ request.result.water_balance.surface_area_assumed = 1000
            /\ \E tieUp \in BOOLEAN :
                  /\ request.result =
                        storage_planning_model(request.input.weather_input, Omitted,
                                               request.result.evaporation_data.id, now, tieUp)
                  /\ Computed(request.result) =
                        Computed(storage_planning_model(request.input.weather_input, Given(1000),
                                                        request.result.evaporation_data.id,
                                                        now, tieUp))

\* A request without surface_area has computed a plan with a capacity.
C5_Witness ==
    \E request \in inflight :
        /\ request.op = "calculate-storage-planning"
        /\ request.input.surface_area = Omitted
        /\ request.result.reservoir_capacity_needed > 0

----------------------------------------------------------------------------
(* C6 *)

SeasonalSum(plan) ==
    plan.seasonal_analysis["spring"].seasonal_total_loss
    + plan.seasonal_analysis["summer"].seasonal_total_loss
    + plan.seasonal_analysis["autumn"].seasonal_total_loss
    + plan.seasonal_analysis["winter"].seasonal_total_loss

\* In hundredths: the annual loss is within 0.01 of the seasonal sum, and
\* the capacity is within 0.01 of 1.5 times the annual loss.
PlanAgrees(plan) ==
    /\ Abs(plan.water_balance.annual_evaporation_loss - SeasonalSum(plan)) <= 1
    /\ plan.reservoir_capacity_needed = plan.water_balance.total_recommended_capacity
    /\ Abs(2 * plan.reservoir_capacity_needed
           - 3 * plan.water_balance.annual_evaporation_loss) <= 2

----------------------------------------------------------------------------
(* C3 *)

\* The collection a POST operation writes to, before and after the step.
Target(op) ==
    CASE op = "calculate-evaporation" -> evaporation_results
      [] op = "calculate-storage-planning" -> storage_planning_results
      [] op = "status" -> status_checks

TargetAfter(op) ==
    CASE op = "calculate-evaporation" -> evaporation_results'
      [] op = "calculate-storage-planning" -> storage_planning_results'
      [] op = "status" -> status_checks'

Completing == inflight \ inflight'

Stored == Len(evaporation_results) + Len(storage_planning_results) + Len(status_checks)
StoredAfter == Len(evaporation_results') + Len(storage_planning_results') + Len(status_checks')

\* How often a document of this id occurs in a collection.
Occurrences(collection, id) == Cardinality({i \in 1..Len(collection) : collection[i].id = id})

C3_Step ==
    \* A request that resumes either stores its record and returns its result,
    \* or stores nothing and is answered 500; it is gone either way.
    /\ \A request \in Completing :
          /\ inflight' = inflight \ {request}
          /\ \/ /\ resp' = Response(request.op, 200, <<request.result>>)
                /\ TargetAfter(request.op) = Append(Target(request.op), request.document)
                /\ Occurrences(TargetAfter(request.op), request.result.id) = 1
                /\ StoredAfter = Stored + 1
             \/ /\ resp' = Response(request.op, 500, <<>>)
                /\ StoredAfter = Stored
                /\ Occurrences(TargetAfter(request.op), request.result.id) = 0
    \* A result is returned only by a request that resumes in this step.
    /\ (resp'.op \in PostOps /\ resp'.status = 200) =>
          \E request \in Completing : resp'.body = <<request.result>>
    \* A record is stored only by a request that resumes in this step.
    /\ StoredAfter # Stored => Completing # {}

\* C3: each POST request either stores exactly one record and then returns
\* that result, or fails: a result is returned only if its record was
\* inserted, a failed insert is answered as a failure, and the insert is not
\* tried again.
C3_PostAllOrNothing == [][C3_Step]_vars

\* The insert of a POST /status failed and was answered 500 (the handler
\* has no other way to fail), after an earlier one had been stored.
C3_Witness ==
    /\ resp = Response("status", 500, <<>>)
    /\ Len(status_checks) = 1
    /\ inflight = {}
    /\ nextId = 3

----------------------------------------------------------------------------
(* C8 *)

C8_Step ==
    /\ IsPrefix(evaporation_results, evaporation_results')
    /\ IsPrefix(storage_planning_results, storage_planning_results')
    /\ IsPrefix(status_checks, status_checks')
    /\ StoredAfter <= Stored + 1
    /\ StoredAfter = Stored + 1 <=>
          (resp'.op \in PostOps /\ resp'.status = 200 /\ inflight' # inflight)
    /\ resp'.op \in GetOps => StoredAfter = Stored

\* C8: the three collections only grow at their end: every record once
\* inserted stays in its collection unchanged, each successful POST adds
\* exactly one record, and the three GET operations change no collection.
C8_AppendOnly == [][C8_Step]_vars

\* A list operation has answered with the two records that two earlier
\* POSTs stored.
C8_Witness ==
    /\ resp.op \in GetOps
    /\ resp.status = 200
    /\ Len(resp.body) = 2

----------------------------------------------------------------------------
(* C9 *)

DistinctIds(collection) ==
    \A i, j \in 1..Len(collection) : collection[i].id = collection[j].id => i = j

\* The values of a stored EvaporationResult are those computed from the
\* weather input it carries.
OwnEvaporation(doc) ==
    \E tieUp \in BOOLEAN :
        LET w == doc.weather_input
            penman == calculate_penman_evaporation(w.temperature, w.humidity, w.wind_speed,
                                                   w.solar_radiation, tieUp)
        IN  /\ doc.evaporation_rate = round(penman.evaporation, 10, tieUp)
            /\ doc.penman_components = penman.components

OwnPlan(doc) ==
    /\ OwnEvaporation(doc.evaporation_data)
    /\ \E tieUp \in BOOLEAN :
          Computed(doc) =
              Computed(calculate_storage_planning(doc.evaporation_data.evaporation_rate,
                                                  doc.water_balance.surface_area_assumed, tieUp))

\* C9: however the requests interleave at their awaits, each collection
\* holds exactly one record per successful POST to its endpoint, no record
\* twice, each record with the input and the computed values of its own
\* request, and nothing of a request that is still suspended.
C9_RequestsIsolated ==
    /\ \A op \in PostOps : Len(Target(op)) = succeeded[op]
    /\ \A op \in PostOps : DistinctIds(Target(op))
    /\ \A i \in 1..Len(evaporation_results) : OwnEvaporation(evaporation_results[i])
    /\ \A i \in 1..Len(storage_planning_results) : OwnPlan(storage_planning_results[i])
    /\ \A request \in inflight : Occurrences(Target(request.op), request.result.id) = 0

\* All requests have finished, and two POST /calculate-evaporation with
\* different inputs were stored in the reverse of the order they were built.
C9_Witness ==
    /\ inflight = {}
    /\ Len(evaporation_results) = 2
    /\ evaporation_results[1].id > evaporation_results[2].id
    /\ evaporation_results[1].weather_input # evaporation_results[2].weather_input

----------------------------------------------------------------------------
(* C10 *)

C10_Step ==
    /\ \A request \in Completing :
          /\ request.op = "calculate-storage-planning" =>
                UNCHANGED <<evaporation_results, status_checks>>
          /\ request.op = "calculate-evaporation" =>
                UNCHANGED <<storage_planning_results, status_checks>>
          /\ request.op = "status" =>
                UNCHANGED <<evaporation_results, storage_planning_results>>
    /\ \A i \in 1..Len(storage_planning_results') :
          /\ Occurrences(evaporation_results',
                         storage_planning_results'[i].evaporation_data.id) = 0
          /\ resp'.op = "evaporation-history" =>
                Occurrences(resp'.body, storage_planning_results'[i].evaporation_data.id) = 0

\* C10: POST /calculate-storage-planning inserts into
\* storage_planning_results only, and the id of the EvaporationResult it
\* embeds never is in evaporation_results nor in GET /evaporation-history;
\* POST /calculate-evaporation changes evaporation_results only and POST
\* /status changes status_checks only.
C10_FrameOfPosts == [][C10_Step]_vars

\* GET /evaporation-history has listed a record while a plan is stored.
C10_Witness ==
    /\ Answered("evaporation-history")
    /\ Len(resp.body) >= 1
    /\ Len(storage_planning_results) >= 1

----------------------------------------------------------------------------
(* C2 *)

\* C2: GET /evaporation-history over n stored records returns min(n, 50)
\* records, each a stored record and none twice, newest first by timestamp,
\* and no record left out has a later timestamp than a record returned.
C2_HistoryIsNewestFifty ==
    Answered("evaporation-history") =>
        LET body == resp.body
            n == Len(evaporation_results)
            listed == {body[i].id : i \in 1..Len(body)}
        IN  /\ Len(body) = Min(n, 50)
            /\ Cardinality(listed) = Len(body)
            /\ \A i \in 1..Len(body) :
                  \E j \in 1..n : body[i] = parse_document(evaporation_results[j])
            /\ NewestFirst(body)
            /\ \A j \in 1..n :
                  evaporation_results[j].id \notin listed =>
                      \A i \in 1..Len(body) :
                          instant(body[i].timestamp) >= stored_instant(evaporation_results[j])

\* 51 records are stored, the oldest of them stored last; the list has 50
\* and leaves out the oldest only.
C2_Witness ==
    /\ Answered("evaporation-history")
    /\ Len(evaporation_results) = 51
    /\ Len(resp.body) = 50
    /\ evaporation_results[51].id = 1
    /\ \A i \in 1..50 : resp.body[i].id # 1
    /\ resp.body[1].id = 51

----------------------------------------------------------------------------
(* C4 *)

\* A listed record equals a returned result in every field, its timestamp
\* denoting the same instant.
SameRecord(listed, result) ==
    /\ listed.id = result.id
    /\ listed.evaporation_rate = result.evaporation_rate
    /\ listed.weather_input = result.weather_input
    /\ listed.penman_components = result.penman_components
    /\ instant(listed.timestamp) = instant(result.timestamp)

\* A POST /calculate-evaporation was answered in the last step and GET
\* /evaporation-history is answered in this one.
ListedRightAfterPost ==
    /\ Answered("calculate-evaporation")
    /\ resp'.op = "evaporation-history"
    /\ resp'.status = 200

\* The stored records other than `result` whose timestamp is not earlier
\* than its own.
NotOlder(result) ==
    {j \in 1..Len(evaporation_results) :
        /\ evaporation_results[j].id # result.id
        /\ stored_instant(evaporation_results[j]) >= instant(result.timestamp)}

\* C4 as claimed: the list taken right after a POST holds the record that
\* the POST returned.
C4_ListedAfterPost ==
    [][ListedRightAfterPost =>
          \E i \in 1..Len(resp'.body) : SameRecord(resp'.body[i], resp.body[1])]_vars

\* C4, amended: the list taken right after a POST holds the record that the
\* POST returned, equal in id, evaporation_rate, weather_input and
\* penman_components and of the same instant, unless 50 other stored records
\* have a timestamp that is not earlier; and a listed record of that id
\* always equals it so.
C4_ListedUnlessCrowdedOut ==
    [][ListedRightAfterPost =>
          /\ Cardinality(NotOlder(resp.body[1])) < 50 =>
                \E i \in 1..Len(resp'.body) : SameRecord(resp'.body[i], resp.body[1])
          /\ \A i \in 1..Len(resp'.body) :
                resp'.body[i].id = resp.body[1].id => SameRecord(resp'.body[i], resp.body[1])]_vars

\* The list holds the record that was stored last, one whose timestamp has
\* a fraction of a second.
C4_Witness ==
    /\ Answered("evaporation-history")
    /\ Len(evaporation_results) >= 2
    /\ \E i \in 1..Len(resp.body) :
          /\ resp.body[i].id = evaporation_results[Len(evaporation_results)].id
          /\ resp.body[i].timestamp.microsecond = 500000
          /\ isoformat(resp.body[i].timestamp)
                = evaporation_results[Len(evaporation_results)].timestamp

----------------------------------------------------------------------------
(* C7 *)

\* C7 as claimed: every list operation returns at most its limit of records,
\* newest first by timestamp.
C7_ListsNewestFirst ==
    /\ Answered("evaporation-history") => Len(resp.body) <= 50 /\ NewestFirst(resp.body)
    /\ Answered("storage-planning-history") => Len(resp.body) <= 50 /\ NewestFirst(resp.body)
    /\ Answered("get-status") => Len(resp.body) <= 1000 /\ NewestFirst(resp.body)

\* C7, amended: the two history operations return at most 50 records, newest
\* first by timestamp; GET /status returns at most 1000 records, the first
\* of the collection in the order in which they were inserted, whatever
\* their timestamps.
C7_ListsWithinLimit ==
    /\ Answered("evaporation-history") => Len(resp.body) <= 50 /\ NewestFirst(resp.body)
    /\ Answered("storage-planning-history") => Len(resp.body) <= 50 /\ NewestFirst(resp.body)
    /\ Answered("get-status") =>
          /\ Len(resp.body) = Min(Len(status_checks), 1000)
          /\ \A i \in 1..Len(resp.body) : resp.body[i] = parse_document(status_checks[i])

\* 1001 status checks are stored; GET /status lists 1000, the oldest first.
C7_Witness ==
    /\ Answered("get-status")
    /\ Len(status_checks) = 1001
    /\ Len(resp.body) = 1000
    /\ instant(resp.body[1].timestamp) < instant(resp.body[2].timestamp)
    /\ resp.body[1000].id = 1000

====
